---- MODULE Spec2Model ----
(***************************************************************************)
(* Model of the scalar reverse-mode autodiff engine of src/src/value.rs:   *)
(* the Value node (Rc<RefCell<InternalValue>>), its operators Add, Sub,    *)
(* Mul and tanh with the backward closures they attach, Value::backward    *)
(* with build_topo, and Value::trace.                                      *)
(*                                                                         *)
(* The heap of Rc cells is the sequence `nodes`; a cell's address (what    *)
(* Rc::ptr_eq compares) is its index.  f64 numbers are modelled as exact   *)
(* rationals <<numerator, denominator>>: on the small dyadic values the    *)
(* model reaches, f64 +, - and * are exact, so the two agree.              *)
(*                                                                         *)
(* Every call is one action: the caller is single-threaded and no call     *)
(* suspends.  Spec is the whole interface; SpecGrad and SpecTrace are the  *)
(* interface restricted to differentiation and to enumeration; SpecInspect *)
(* differentiates once and enumerates; SpecChain is the program of         *)
(* tests::chain.  The RefCell borrows a call takes are modelled as the     *)
(* sequence of borrow events of its code.                                  *)
(***************************************************************************)
EXTENDS Integers, Sequences, FiniteSets, TLC

(***************************************************************************)
(* Bounds of the model.                                                    *)
(***************************************************************************)
MaxNodes == 3
MaxBackward == 2
MaxLabelCalls == 1

(***************************************************************************)
(* f64 arithmetic on exactly representable values.                         *)
(***************************************************************************)
Abs(n) == IF n < 0 THEN -n ELSE n

RECURSIVE Gcd(_, _)
Gcd(a, b) == IF b = 0 THEN a ELSE Gcd(b, a % b)

Rat(n, d) ==
    LET g == Gcd(Abs(n), Abs(d))
        s == IF d < 0 THEN -1 ELSE 1
    IN  <<(s * n) \div g, (s * d) \div g>>

Zero == <<0, 1>>
One == <<1, 1>>
Two == <<2, 1>>
FromInt(n) == <<n, 1>>

FNeg(x) == <<-x[1], x[2]>>
\* The operands are brought to their least common denominator, and products
\* are cancelled crosswise first, so that intermediate integers stay small.
FAdd(x, y) ==
    LET g == Gcd(x[2], y[2])
    IN  Rat(x[1] * (y[2] \div g) + y[1] * (x[2] \div g), (x[2] \div g) * y[2])
FSub(x, y) == FAdd(x, FNeg(y))
FMul(x, y) ==
    LET a == Rat(x[1], y[2])
        b == Rat(y[1], x[2])
    IN  <<a[1] * b[1], a[2] * b[2]>>
FAbs(x) == <<Abs(x[1]), x[2]>>
FLess(x, y) == x[1] * y[2] < y[1] * x[2]

\* f64::tanh.  tanh(0.0) = 0.0 and tanh(x) = +-1.0 for |x| >= 20 are what the
\* f64 function returns; in between the result is rounded to a coarse dyadic
\* grid (odd, monotone, strictly inside (-1, 1)).
FTanh(x) ==
    LET a == FAbs(x)
        m == IF a = Zero THEN Zero
             ELSE IF FLess(a, <<1, 2>>) THEN <<1, 4>>
             ELSE IF FLess(a, One) THEN <<1, 2>>
             ELSE IF FLess(a, Two) THEN <<3, 4>>
             ELSE IF FLess(a, FromInt(20)) THEN <<15, 16>>
             ELSE One
    IN  IF x[1] < 0 THEN FNeg(m) ELSE m

(***************************************************************************)
(* Inputs: the values given to Value::new and the labels given to          *)
(* with_label.                                                             *)
(***************************************************************************)
LeafVals == {FromInt(-2), FromInt(3)}
Labels == {"a"}

None == "None"

(***************************************************************************)
(* State.                                                                  *)
(***************************************************************************)
VARIABLES
    nodes,      \* the InternalValue cells ever allocated, by address
    nBackward,  \* number of backward() calls made
    nLabel,     \* number of with_label() calls made
    call,       \* the backward() call that has just returned, as it ran
    ret         \* what the trace() call that has just returned gave back

vars == <<nodes, nBackward, nLabel, call, ret>>

Ids == 1..Len(nodes)

\* The closure stored in out.backward: which rule it is and what it captured.
Closure(f, lhs, rhs, out, is_self, data) ==
    [f |-> f, lhs |-> lhs, rhs |-> rhs, out |-> out, is_self |-> is_self,
     data |-> data]

\* backward: None
NoClosure == Closure("none", 0, 0, 0, FALSE, Zero)

\* InternalValue::new with Uuid::nil() for Uuid::new_v4().
InternalValueNewNilUuid(uuid, data, grad, prev, label, op) ==
    [uuid |-> 0, data |-> data, grad |-> grad, prev |-> prev,
     label |-> label, op |-> op, backward |-> NoClosure]

\* InternalValue::new: a fresh uuid, the given fields, no backward closure.
\* Uuid::new_v4() is modelled as a value no earlier cell holds.
InternalValueNew(uuid, data, grad, prev, label, op) ==
    [uuid |-> uuid, data |-> data, grad |-> grad, prev |-> prev,
     label |-> label, op |-> op, backward |-> NoClosure]

\* Value::new_internal: allocate the cell; its address is the next index.
NewInternal(ns, data, grad, prev, label, op) ==
    Append(ns, InternalValueNew(Len(ns) + 1, data, grad, prev, label, op))

\* out_internal_mut.backward = Some(Rc::new(RefCell::new(backward)))
SetBackward(ns, out, c) == [ns EXCEPT ![out].backward = c]

\* call and ret when the last call was no backward(), no trace().  A
\* backward() call is recorded with its root, the gradients before it (pre),
\* whether it repeats a backward() on the same root that started from
\* all-zero gradients (rep), the order build_topo gave and the closure
\* invocations in the order they ran.
NoCall == [root |-> 0, pre |-> <<>>, rep |-> FALSE, topo |-> <<>>, log |-> <<>>]
NoRet == [root |-> 0, nodes |-> <<>>, edges |-> <<>>]

\* The gradient of every cell, by address.
Grads(ns) == [i \in 1..Len(ns) |-> ns[i].grad]

Init ==
    /\ nodes = <<>>
    /\ nBackward = 0
    /\ nLabel = 0
    /\ call = NoCall
    /\ ret = NoRet

(***************************************************************************)
(* Constructors.                                                           *)
(***************************************************************************)
\* The operand list of a binary operator: vec![self], rhs pushed if !is_self.
BinaryPrev(lhs, rhs) == IF lhs = rhs THEN <<lhs>> ELSE <<lhs, rhs>>

\* The binary operators with is_self decided by comparing the operands' data
\* instead of Rc::ptr_eq.
BinaryOutByValue(ns, f, op, data, lhs, rhs) ==
    LET out == Len(ns) + 1
        is_self == ns[lhs].data = ns[rhs].data
        prev == IF is_self THEN <<lhs>> ELSE <<lhs, rhs>>
        ns1 == NewInternal(ns, data, Zero, prev, None, op)
    IN  SetBackward(ns1, out, Closure(f, lhs, rhs, out, is_self, data))

\* The three binary operators share their shape: data computed eagerly, the
\* operand list, out allocated with grad 0, then the closure stored in out.
BinaryOut(ns, f, op, data, lhs, rhs) ==
    LET out == Len(ns) + 1
        ns1 == NewInternal(ns, data, Zero, BinaryPrev(lhs, rhs), None, op)
    IN  SetBackward(ns1, out, Closure(f, lhs, rhs, out, lhs = rhs, data))

\* impl Add for Value
AddValue(ns, lhs, rhs) ==
    BinaryOut(ns, "add", "+", FAdd(ns[lhs].data, ns[rhs].data), lhs, rhs)

\* impl Sub for Value
SubValue(ns, lhs, rhs) ==
    BinaryOut(ns, "sub", "-", FSub(ns[lhs].data, ns[rhs].data), lhs, rhs)

\* impl Mul for Value
MulValue(ns, lhs, rhs) ==
    BinaryOut(ns, "mul", "*", FMul(ns[lhs].data, ns[rhs].data), lhs, rhs)

\* Value::tanh with the result listed as its own operand.
TanhValueOfItself(ns, lhs) ==
    LET out == Len(ns) + 1
        data == FTanh(ns[lhs].data)
        ns1 == NewInternal(ns, data, Zero, <<out>>, None, "tanh")
    IN  SetBackward(ns1, out, Closure("tanh", lhs, lhs, out, FALSE, data))

\* Value::tanh
TanhValue(ns, lhs) ==
    LET out == Len(ns) + 1
        data == FTanh(ns[lhs].data)
        ns1 == NewInternal(ns, data, Zero, <<lhs>>, None, "tanh")
    IN  SetBackward(ns1, out, Closure("tanh", lhs, lhs, out, FALSE, data))

\* What a constructor call leaves behind: the heap with the new cell.
Allocated(ns) ==
    /\ nodes' = ns
    /\ call' = NoCall
    /\ ret' = NoRet
    /\ UNCHANGED <<nBackward, nLabel>>

CanAllocate == Len(nodes) < MaxNodes

\* Value::new(data)
New(data) ==
    /\ CanAllocate
    /\ Allocated(NewInternal(nodes, data, Zero, <<>>, None, None))

\* lhs + rhs
Add(lhs, rhs) ==
    /\ CanAllocate
    /\ Allocated(AddValue(nodes, lhs, rhs))

\* lhs - rhs
Sub(lhs, rhs) ==
    /\ CanAllocate
    /\ Allocated(SubValue(nodes, lhs, rhs))

\* lhs * rhs
Mul(lhs, rhs) ==
    /\ CanAllocate
    /\ Allocated(MulValue(nodes, lhs, rhs))

\* lhs.tanh()
Tanh(lhs) ==
    /\ CanAllocate
    /\ Allocated(TanhValue(nodes, lhs))

\* Value::with_label
WithLabel(v, label) ==
    /\ nLabel < MaxLabelCalls
    /\ nodes' = [nodes EXCEPT ![v].label = label]
    /\ nLabel' = nLabel + 1
    /\ call' = NoCall
    /\ ret' = NoRet
    /\ UNCHANGED nBackward

(***************************************************************************)
(* Backward closures.  Each takes the heap and the closure's captures and  *)
(* returns the heap after the closure ran.                                 *)
(***************************************************************************)
\* Add::add's closure with `=` written for `+=`.
AddBackwardOverwrite(ns, c) ==
    LET out_grad == ns[c.out].grad
        ns1 == [ns EXCEPT ![c.lhs].grad = out_grad]
    IN  IF c.is_self
        THEN [ns1 EXCEPT ![c.lhs].grad = FMul(@, Two)]
        ELSE [ns1 EXCEPT ![c.rhs].grad = out_grad]

\* Add::add, the `backward` closure
AddBackward(ns, c) ==
    LET out_grad == ns[c.out].grad
        ns1 == [ns EXCEPT ![c.lhs].grad = FAdd(@, out_grad)]
    IN  IF c.is_self
        THEN [ns1 EXCEPT ![c.lhs].grad = FMul(@, Two)]
        ELSE [ns1 EXCEPT ![c.rhs].grad = FAdd(@, out_grad)]

\* Sub::sub's closure with the right operand's `-=` written as `+=`.
SubBackwardAddsRight(ns, c) ==
    LET out_grad == ns[c.out].grad
        ns1 == [ns EXCEPT ![c.lhs].grad = FAdd(@, out_grad)]
    IN  IF c.is_self
        THEN [ns1 EXCEPT ![c.lhs].grad = FMul(@, Zero)]
        ELSE [ns1 EXCEPT ![c.rhs].grad = FAdd(@, out_grad)]

\* Sub::sub, the `backward` closure
SubBackward(ns, c) ==
    LET out_grad == ns[c.out].grad
        ns1 == [ns EXCEPT ![c.lhs].grad = FAdd(@, out_grad)]
    IN  IF c.is_self
        THEN [ns1 EXCEPT ![c.lhs].grad = FMul(@, Zero)]
        ELSE [ns1 EXCEPT ![c.rhs].grad = FSub(@, out_grad)]

\* Mul::mul's closure writing through its mutable borrow of the right
\* operand into data instead of grad.
MulBackwardWritesData(ns, c) ==
    LET rhs_data == IF c.is_self THEN ns[c.lhs].data ELSE ns[c.rhs].data
        out_grad == ns[c.out].grad
        ns1 == [ns EXCEPT ![c.lhs].grad = FAdd(@, FMul(rhs_data, out_grad))]
    IN  IF c.is_self
        THEN [ns1 EXCEPT ![c.lhs].grad = FMul(@, Two)]
        ELSE [ns1 EXCEPT ![c.rhs].data =
                            FAdd(@, FMul(ns1[c.lhs].data, out_grad))]

\* Mul::mul, the `backward` closure
MulBackward(ns, c) ==
    LET rhs_data == IF c.is_self THEN ns[c.lhs].data ELSE ns[c.rhs].data
        out_grad == ns[c.out].grad
        ns1 == [ns EXCEPT ![c.lhs].grad = FAdd(@, FMul(rhs_data, out_grad))]
    IN  IF c.is_self
        THEN [ns1 EXCEPT ![c.lhs].grad = FMul(@, Two)]
        ELSE [ns1 EXCEPT ![c.rhs].grad =
                            FAdd(@, FMul(ns1[c.lhs].data, out_grad))]

\* Value::tanh's closure with `=` written for `+=`.
TanhBackwardOverwrite(ns, c) ==
    LET out_grad == ns[c.out].grad
    IN  [ns EXCEPT ![c.lhs].grad =
            FMul(FSub(One, FMul(c.data, c.data)), out_grad)]

\* Value::tanh, the `backward` closure: data is the captured result value.
TanhBackward(ns, c) ==
    LET out_grad == ns[c.out].grad
    IN  [ns EXCEPT ![c.lhs].grad =
            FAdd(@, FMul(FSub(One, FMul(c.data, c.data)), out_grad))]

\* backward.borrow_mut()()
Invoke(ns, c) ==
    CASE c.f = "add" -> AddBackward(ns, c)
      [] c.f = "sub" -> SubBackward(ns, c)
      [] c.f = "mul" -> MulBackward(ns, c)
      [] c.f = "tanh" -> TanhBackward(ns, c)

(***************************************************************************)
(* build_topo: post-order depth-first walk guarded by the visited uuids.   *)
(* st = [topo, visited] are the two &mut arguments.                        *)
(***************************************************************************)
RECURSIVE BuildTopo(_, _, _)
RECURSIVE BuildTopoChildren(_, _, _, _)

\* for child in &v.0.borrow().prev { build_topo(child, topo, visited) }
BuildTopoChildren(ns, v, i, st) ==
    IF i > Len(ns[v].prev) THEN st
    ELSE BuildTopoChildren(ns, v, i + 1, BuildTopo(ns, ns[v].prev[i], st))

\* build_topo without the visited.insert.
BuildTopoRevisits(ns, v, st) ==
    IF ns[v].uuid \in st.visited THEN st
    ELSE LET st2 == BuildTopoChildren(ns, v, 1, st)
         IN  [st2 EXCEPT !.topo = Append(@, v)]

BuildTopo(ns, v, st) ==
    IF ns[v].uuid \in st.visited THEN st
    ELSE LET st1 == [st EXCEPT !.visited = @ \cup {ns[v].uuid}]
             st2 == BuildTopoChildren(ns, v, 1, st1)
         IN  [st2 EXCEPT !.topo = Append(@, v)]

\* The seeding with `+=` written for `=`.
SeedRootAccumulates(ns, r) == [ns EXCEPT ![r].grad = FAdd(@, One)]

\* self.0.borrow_mut().grad = 1.0
SeedRoot(ns, r) == [ns EXCEPT ![r].grad = One]

AllZero(gs) == \A i \in 1..Len(gs) : gs[i] = Zero

\* for node in topo.iter().rev(): the node's closure, if it has one, is
\* invoked.  i is the position of the reverse iterator; st = [nodes, log],
\* where log records every invocation: the node whose closure ran and the
\* gradients of all cells before and after it.
RECURSIVE RunRules(_, _, _)
RECURSIVE RunRulesForward(_, _, _)

\* The loop over topo.iter() without .rev().
RunRulesForward(order, i, st) ==
    IF i = 0 THEN st
    ELSE LET node == order[Len(order) - i + 1]
             c == st.nodes[node].backward
         IN  IF c.f = "none" THEN RunRulesForward(order, i - 1, st)
             ELSE LET ns1 == Invoke(st.nodes, c)
                      e == [node |-> node, pre |-> Grads(st.nodes),
                            post |-> Grads(ns1)]
                  IN  RunRulesForward(order, i - 1,
                                      [nodes |-> ns1, log |-> Append(st.log, e)])

RunRules(order, i, st) ==
    IF i = 0 THEN st
    ELSE LET node == order[i]
             c == st.nodes[node].backward
         IN  IF c.f = "none" THEN RunRules(order, i - 1, st)
             ELSE LET ns1 == Invoke(st.nodes, c)
                      e == [node |-> node, pre |-> Grads(st.nodes),
                            post |-> Grads(ns1)]
                  IN  RunRules(order, i - 1,
                               [nodes |-> ns1, log |-> Append(st.log, e)])

\* Value::backward
RunBackward(r) ==
    LET order == BuildTopo(nodes, r, [topo |-> <<>>, visited |-> {}]).topo
        st == RunRules(order, Len(order),
                       [nodes |-> SeedRoot(nodes, r), log |-> <<>>])
    IN  /\ nodes' = st.nodes
        /\ nBackward' = nBackward + 1
        /\ call' = [root |-> r, pre |-> Grads(nodes),
                    rep |-> call.root = r /\ AllZero(call.pre),
                    topo |-> order, log |-> st.log]
        /\ ret' = NoRet
        /\ UNCHANGED nLabel

Backward(r) ==
    /\ nBackward < MaxBackward
    /\ RunBackward(r)

(***************************************************************************)
(* Value::trace.  st = [nodes, edges, visited] are the &mut arguments of   *)
(* the inner fn build.                                                     *)
(***************************************************************************)
\* Value::label: the label, or "" when there is none.
LabelOf(ns, v) == IF ns[v].label = None THEN "" ELSE ns[v].label

\* impl From<&Value> for DataValue
DataValueFrom(ns, v) ==
    [uuid |-> ns[v].uuid, data |-> ns[v].data, grad |-> ns[v].grad,
     label |-> LabelOf(ns, v), op |-> ns[v].op]

RECURSIVE TraceBuild(_, _, _)
RECURSIVE TraceBuildChildren(_, _, _, _)

\* for child in &v.0.borrow().prev { edges.push(..); build(child, ..) }
TraceBuildChildren(ns, v, i, st) ==
    IF i > Len(ns[v].prev) THEN st
    ELSE LET child == ns[v].prev[i]
             st1 == [st EXCEPT !.edges =
                        Append(@, <<DataValueFrom(ns, child), DataValueFrom(ns, v)>>)]
         IN  TraceBuildChildren(ns, v, i + 1, TraceBuild(ns, child, st1))

\* build without the visited.insert.
TraceBuildRevisits(ns, v, st) ==
    LET data_val_ref == DataValueFrom(ns, v)
    IN  IF data_val_ref.uuid \in st.visited THEN st
        ELSE LET st1 == [st EXCEPT !.nodes = Append(@, data_val_ref)]
             IN  TraceBuildChildren(ns, v, 1, st1)

TraceBuild(ns, v, st) ==
    LET data_val_ref == DataValueFrom(ns, v)
    IN  IF data_val_ref.uuid \in st.visited THEN st
        ELSE LET st1 == [st EXCEPT !.visited = @ \cup {data_val_ref.uuid},
                                   !.nodes = Append(@, data_val_ref)]
             IN  TraceBuildChildren(ns, v, 1, st1)

Trace(r) ==
    /\ LET st == TraceBuild(nodes, r,
                            [nodes |-> <<>>, edges |-> <<>>, visited |-> {}])
       IN  ret' = [root |-> r, nodes |-> st.nodes, edges |-> st.edges]
    /\ call' = NoCall
    /\ UNCHANGED <<nodes, nBackward, nLabel>>

(***************************************************************************)
(* RefCell borrows.  Every cell carries the borrow flag of its RefCell: 0   *)
(* when unborrowed, k > 0 under k shared borrows, -1 under a mutable one.   *)
(* A call is the sequence of borrow and drop events its code performs, in   *)
(* program order; borrow() panics on a flag below 0, borrow_mut() on a flag *)
(* other than 0.  The RefCell around the closure of node n is the cell      *)
(* ClosureCell(ns, n).                                                      *)
(***************************************************************************)
Ev(op, cell) == [op |-> op, cell |-> cell]

\* A temporary Ref: taken and dropped within one expression.
Read(cell) == <<Ev("borrow", cell), Ev("drop", cell)>>

\* A temporary RefMut: taken and dropped within one statement.
Write(cell) == <<Ev("borrow_mut", cell), Ev("drop_mut", cell)>>

ClosureCell(ns, n) == Len(ns) + n

\* Add::add's closure on one node twice taking rhs_internal.borrow_mut()
\* all the same.
AddBorrowsAliased(c) ==
    <<Ev("borrow_mut", c.lhs)>> \o Read(c.out) \o Write(c.rhs)
        \o <<Ev("drop_mut", c.lhs)>>

\* Add::add, the `backward` closure: lhs is held mutably to the end, out is
\* read, rhs is written unless is_self.
AddBorrows(c) ==
    <<Ev("borrow_mut", c.lhs)>> \o Read(c.out)
        \o (IF c.is_self THEN <<>> ELSE Write(c.rhs))
        \o <<Ev("drop_mut", c.lhs)>>

\* Sub::sub, the `backward` closure
SubBorrows(c) ==
    <<Ev("borrow_mut", c.lhs)>> \o Read(c.out)
        \o (IF c.is_self THEN <<>> ELSE Write(c.rhs))
        \o <<Ev("drop_mut", c.lhs)>>

\* Mul::mul, the `backward` closure: rhs's data is read through a temporary
\* borrow_mut unless is_self, then as Add.
MulBorrows(c) ==
    <<Ev("borrow_mut", c.lhs)>>
        \o (IF c.is_self THEN <<>> ELSE Write(c.rhs))
        \o Read(c.out)
        \o (IF c.is_self THEN <<>> ELSE Write(c.rhs))
        \o <<Ev("drop_mut", c.lhs)>>

\* Value::tanh, the `backward` closure
TanhBorrows(c) ==
    <<Ev("borrow_mut", c.lhs)>> \o Read(c.out) \o <<Ev("drop_mut", c.lhs)>>

ClosureBorrows(c) ==
    CASE c.f = "add" -> AddBorrows(c)
      [] c.f = "sub" -> SubBorrows(c)
      [] c.f = "mul" -> MulBorrows(c)
      [] c.f = "tanh" -> TanhBorrows(c)

\* The constructor of operation result out: the operands' data are read
\* through temporaries that live to the end of the statement (both at once
\* for a binary operator), then out is borrowed mutably to store the closure.
OperatorBorrows(ns, out) ==
    LET c == ns[out].backward
    IN  IF c.f = "tanh" THEN Read(c.lhs) \o Write(out)
        ELSE <<Ev("borrow", c.lhs), Ev("borrow", c.rhs),
               Ev("drop", c.rhs), Ev("drop", c.lhs)>> \o Write(out)

\* build_topo: v.uuid() for contains and for insert, then v borrowed for the
\* whole loop over its prev.  st = [events, visited].
RECURSIVE BuildTopoBorrows(_, _, _)
RECURSIVE BuildTopoChildrenBorrows(_, _, _, _)

BuildTopoChildrenBorrows(ns, v, i, st) ==
    IF i > Len(ns[v].prev) THEN st
    ELSE BuildTopoChildrenBorrows(ns, v, i + 1,
                                  BuildTopoBorrows(ns, ns[v].prev[i], st))

BuildTopoBorrows(ns, v, st) ==
    LET st0 == [st EXCEPT !.events = @ \o Read(v)]
    IN  IF ns[v].uuid \in st.visited THEN st0
        ELSE LET st1 == [st0 EXCEPT !.visited = @ \cup {ns[v].uuid},
                                    !.events = @ \o Read(v)
                                                 \o <<Ev("borrow", v)>>]
                 st2 == BuildTopoChildrenBorrows(ns, v, 1, st1)
             IN  [st2 EXCEPT !.events = Append(@, Ev("drop", v))]

\* The loop of Value::backward: node stays borrowed while its closure, if it
\* has one, is borrowed mutably and runs.
RECURSIVE RunRulesBorrows(_, _, _)
RunRulesBorrows(ns, order, i) ==
    IF i = 0 THEN <<>>
    ELSE LET node == order[i]
             c == ns[node].backward
             body == IF c.f = "none" THEN <<>>
                     ELSE <<Ev("borrow_mut", ClosureCell(ns, node))>>
                              \o ClosureBorrows(c)
                              \o <<Ev("drop_mut", ClosureCell(ns, node))>>
         IN  <<Ev("borrow", node)>> \o body \o <<Ev("drop", node)>>
                 \o RunRulesBorrows(ns, order, i - 1)

\* Value::backward
BackwardBorrows(ns, r) ==
    LET st == BuildTopoBorrows(ns, r, [events |-> <<>>, visited |-> {}])
        order == BuildTopo(ns, r, [topo |-> <<>>, visited |-> {}]).topo
    IN  st.events \o Write(r) \o RunRulesBorrows(ns, order, Len(order))

\* DataValue::from: uuid(), data(), grad(), label(), op()
DataValueBorrows(v) == Read(v) \o Read(v) \o Read(v) \o Read(v) \o Read(v)

\* Value::trace's build: v is copied out, then borrowed for the whole loop
\* over its prev, in which every child is copied out before the descent.
RECURSIVE TraceBuildBorrows(_, _, _)
RECURSIVE TraceBuildChildrenBorrows(_, _, _, _)

TraceBuildChildrenBorrows(ns, v, i, st) ==
    IF i > Len(ns[v].prev) THEN st
    ELSE LET child == ns[v].prev[i]
             st1 == [st EXCEPT !.events = @ \o DataValueBorrows(child)]
         IN  TraceBuildChildrenBorrows(ns, v, i + 1,
                                       TraceBuildBorrows(ns, child, st1))

TraceBuildBorrows(ns, v, st) ==
    LET st0 == [st EXCEPT !.events = @ \o DataValueBorrows(v)]
    IN  IF ns[v].uuid \in st.visited THEN st0
        ELSE LET st1 == [st0 EXCEPT !.visited = @ \cup {ns[v].uuid},
                                    !.events = Append(@, Ev("borrow", v))]
                 st2 == TraceBuildChildrenBorrows(ns, v, 1, st1)
             IN  [st2 EXCEPT !.events = Append(@, Ev("drop", v))]

\* Value::trace
TraceBorrows(ns, r) ==
    TraceBuildBorrows(ns, r, [events |-> <<>>, visited |-> {}]).events

\* RefCell::borrow, RefCell::borrow_mut and the drops of Ref and RefMut, run
\* over the events from position i.  st = [flag, panicked].
RECURSIVE RunBorrows(_, _, _)
RunBorrows(events, i, st) ==
    IF i > Len(events) \/ st.panicked THEN st
    ELSE LET e == events[i]
             f == st.flag[e.cell]
         IN  CASE e.op = "borrow" ->
                    IF f >= 0
                    THEN RunBorrows(events, i + 1,
                                    [st EXCEPT !.flag[e.cell] = f + 1])
                    ELSE [st EXCEPT !.panicked = TRUE]
               [] e.op = "borrow_mut" ->
                    IF f = 0
                    THEN RunBorrows(events, i + 1,
                                    [st EXCEPT !.flag[e.cell] = -1])
                    ELSE [st EXCEPT !.panicked = TRUE]
               [] e.op = "drop" ->
                    RunBorrows(events, i + 1,
                               [st EXCEPT !.flag[e.cell] = f - 1])
               [] e.op = "drop_mut" ->
                    RunBorrows(events, i + 1,
                               [st EXCEPT !.flag[e.cell] = 0])

\* No cell is borrowed between two calls: the interface hands out no Ref.
Unborrowed(ns) ==
    [flag |-> [cell \in 1..(2 * Len(ns)) |-> 0], panicked |-> FALSE]

(***************************************************************************)
(* The program: any sequence of calls a single-threaded caller can make.   *)
(***************************************************************************)
Next ==
    \/ \E data \in LeafVals : New(data)
    \/ \E lhs, rhs \in Ids : Add(lhs, rhs)
    \/ \E lhs, rhs \in Ids : Sub(lhs, rhs)
    \/ \E lhs, rhs \in Ids : Mul(lhs, rhs)
    \/ \E lhs \in Ids : Tanh(lhs)
    \/ \E v \in Ids, label \in Labels : WithLabel(v, label)
    \/ \E r \in Ids : Backward(r)
    \/ \E r \in Ids : Trace(r)

Spec == Init /\ [][Next]_vars

\* The program restricted to graph construction and differentiation.
NextGrad ==
    \/ \E data \in LeafVals : New(data)
    \/ \E lhs, rhs \in Ids : Add(lhs, rhs)
    \/ \E lhs, rhs \in Ids : Sub(lhs, rhs)
    \/ \E lhs, rhs \in Ids : Mul(lhs, rhs)
    \/ \E lhs \in Ids : Tanh(lhs)
    \/ \E r \in Ids : Backward(r)

SpecGrad == Init /\ [][NextGrad]_vars

\* The program restricted to graph construction, labelling and enumeration.
NextTrace ==
    \/ \E data \in LeafVals : New(data)
    \/ \E lhs, rhs \in Ids : Add(lhs, rhs)
    \/ \E lhs, rhs \in Ids : Sub(lhs, rhs)
    \/ \E lhs, rhs \in Ids : Mul(lhs, rhs)
    \/ \E lhs \in Ids : Tanh(lhs)
    \/ \E v \in Ids, label \in Labels : WithLabel(v, label)
    \/ \E r \in Ids : Trace(r)

SpecTrace == Init /\ [][NextTrace]_vars

\* backward() called while every gradient is still as constructed.
FirstBackward(r) ==
    /\ AllZero(Grads(nodes))
    /\ Backward(r)

\* The program that builds a graph, differentiates it once from fresh
\* gradients, goes on building, and enumerates what it built.
NextInspect ==
    \/ \E data \in LeafVals : New(data)
    \/ \E lhs, rhs \in Ids : Add(lhs, rhs)
    \/ \E lhs, rhs \in Ids : Sub(lhs, rhs)
    \/ \E lhs, rhs \in Ids : Mul(lhs, rhs)
    \/ \E lhs \in Ids : Tanh(lhs)
    \/ \E r \in Ids : FirstBackward(r)
    \/ \E r \in Ids : Trace(r)

SpecInspect == Init /\ [][NextInspect]_vars

(***************************************************************************)
(* The reconvergence programs: tests::chain, f = (a + b) * (a * b), and    *)
(* its shorter form c = (a + b) * a, each followed by one backward() on    *)
(* the last node, over a range of leaf values (and with a - b for a + b).  *)
(***************************************************************************)
ChainVals == {FromInt(v) : v \in -2..3}

\* The last node is the c or the f of the program.
ChainBuilt ==
    \/ Len(nodes) = 4 /\ nodes[4].prev = <<3, 1>>
    \/ Len(nodes) = 5

\* let a = Value::new(..); let b = Value::new(..);
ChainLeaf(data) ==
    /\ Len(nodes) < 2
    /\ Allocated(NewInternal(nodes, data, Zero, <<>>, None, None))

\* let e = a.clone() + b.clone();
ChainSum ==
    /\ Len(nodes) = 2
    /\ \/ Allocated(AddValue(nodes, 1, 2))
       \/ Allocated(SubValue(nodes, 1, 2))

\* let d = a.clone() * b.clone();   or   let c = e.clone() * a.clone();
ChainProduct ==
    /\ Len(nodes) = 3
    /\ \/ Allocated(MulValue(nodes, 1, 2))
       \/ Allocated(MulValue(nodes, 3, 1))

\* let f = e.clone() * d.clone();
ChainRoot ==
    /\ Len(nodes) = 4
    /\ nodes[4].prev = <<1, 2>>
    /\ Allocated(MulValue(nodes, 3, 4))

\* f.backward();
ChainBackward ==
    /\ ChainBuilt
    /\ nBackward = 0
    /\ RunBackward(Len(nodes))

NextChain ==
    \/ \E data \in ChainVals : ChainLeaf(data)
    \/ ChainSum
    \/ ChainProduct
    \/ ChainRoot
    \/ ChainBackward

SpecChain == Init /\ [][NextChain]_vars

(***************************************************************************)
(* Vocabulary of the properties.                                           *)
(***************************************************************************)
\* The nodes reachable from r through operand lists, r included.
RECURSIVE Reach(_, _)
Reach(ns, r) ==
    {r} \cup UNION {Reach(ns, ns[r].prev[i]) : i \in 1..Len(ns[r].prev)}

\* The partial derivative of c.value with respect to n.value, both operand
\* positions of c counted: the mathematics, independent of the closures.
Local(ns, c, n) ==
    LET k == ns[c].backward
        l == IF k.lhs = n THEN One ELSE Zero
        r == IF k.rhs = n THEN One ELSE Zero
    IN  CASE k.f = "add" -> FAdd(l, r)
          [] k.f = "sub" -> FSub(l, r)
          [] k.f = "mul" -> FAdd(FMul(l, ns[k.rhs].data), FMul(r, ns[k.lhs].data))
          [] k.f = "tanh" -> FMul(l, FSub(One, FMul(ns[c].data, ns[c].data)))
          [] OTHER -> Zero

\* d(root.value)/d(n.value): the sum over all operand paths from root to n of
\* the product of the local derivatives along the path.
RECURSIVE Derivative(_, _, _)
RECURSIVE DerivativeFrom(_, _, _, _)
DerivativeFrom(ns, root, n, c) ==
    IF c > root THEN Zero
    ELSE FAdd(IF c \in Reach(ns, root)
                 THEN FMul(Derivative(ns, root, c), Local(ns, c, n))
                 ELSE Zero,
              DerivativeFrom(ns, root, n, c + 1))

Derivative(ns, root, n) ==
    IF n = root THEN One ELSE DerivativeFrom(ns, root, n, n + 1)

\* The invocations of the call that has just returned.
Invocations == {call.log[k] : k \in 1..Len(call.log)}

\* The closure an invocation ran.
ClosureOf(e) == nodes[e.node].backward

\* C1: the backward rule of x + x increases x's gradient by exactly twice the
\* result's gradient, whatever gradient x held before the rule ran.
C1_AddSelfAddsTwice ==
    \A e \in Invocations :
        LET c == ClosureOf(e)
        IN  (c.f = "add" /\ c.is_self) =>
                e.post[c.lhs] = FAdd(e.pre[c.lhs], FMul(Two, e.pre[c.out]))

\* C2: the backward rule of x - x leaves x's gradient as it was before the
\* rule ran, whatever that gradient was.
C2_SubSelfCancels ==
    \A e \in Invocations :
        LET c == ClosureOf(e)
        IN  (c.f = "sub" /\ c.is_self) => e.post[c.lhs] = e.pre[c.lhs]

\* C3: the backward rule of x * x increases x's gradient by exactly
\* 2 * x.value * the result's gradient, whatever gradient x held before.
C3_MulSelfAddsTwice ==
    \A e \in Invocations :
        LET c == ClosureOf(e)
        IN  (c.f = "mul" /\ c.is_self) =>
                e.post[c.lhs] =
                    FAdd(e.pre[c.lhs],
                         FMul(Two, FMul(nodes[c.lhs].data, e.pre[c.out])))

\* The graph under r is built from leaves with add, subtract and multiply.
Arithmetic(ns, r) == \A n \in Reach(ns, r) : ns[n].op # "tanh"

\* C4: after root.backward() from all-zero gradients, every node reachable
\* from the root of an add/subtract/multiply graph holds the partial
\* derivative of root.value with respect to its value.
C4_GradientIsDerivative ==
    (call.root # 0 /\ AllZero(call.pre) /\ Arithmetic(nodes, call.root)) =>
        \A n \in Reach(nodes, call.root) :
            nodes[n].grad = Derivative(nodes, call.root, n)

\* What the consumers of n under root pushed into n: the sum, over the
\* reachable nodes c that have n as an operand, of c.gradient times the
\* derivative of c.value with respect to n.value.
RECURSIVE Contributions(_, _, _, _)
Contributions(ns, root, n, c) ==
    IF c > root THEN Zero
    ELSE FAdd(IF c \in Reach(ns, root)
                 THEN FMul(ns[c].grad, Local(ns, c, n))
                 ELSE Zero,
              Contributions(ns, root, n, c + 1))

\* The graph is c = (a + b) * a.
IsSumTimesLeaf ==
    /\ Len(nodes) = 4
    /\ nodes[3].op = "+"
    /\ nodes[4].prev = <<3, 1>>

\* The graph is f = (a + b) * (a * b) with a = -2, b = 3.
IsChainTest ==
    /\ Len(nodes) = 5
    /\ nodes[3].op = "+"
    /\ nodes[1].data = FromInt(-2)
    /\ nodes[2].data = FromInt(3)

\* C5: after root.backward() from all-zero gradients on a graph whose
\* operations have two distinct operands, a node consumed by several nodes
\* holds the sum of what each consumer pushed; (a + b) * a gives
\* a.gradient = 2a + b and b.gradient = a, and (a + b) * (a * b) at a = -2,
\* b = 3 gives a.gradient = -3 and b.gradient = -8.
C5_Reconvergence ==
    (call.root # 0 /\ AllZero(call.pre)) =>
        /\ \A n \in Reach(nodes, call.root) \ {call.root} :
               nodes[n].grad = Contributions(nodes, call.root, n, n + 1)
        /\ IsSumTimesLeaf =>
               /\ nodes[1].grad = FAdd(FMul(Two, nodes[1].data), nodes[2].data)
               /\ nodes[2].grad = nodes[1].data
        /\ IsChainTest =>
               /\ nodes[1].grad = FromInt(-3)
               /\ nodes[2].grad = FromInt(-8)

\* tests::chain has run: f.backward() has returned on a = -2, b = 3.
C5_Witness ==
    /\ call.root = 5
    /\ IsChainTest
    /\ nodes[3].grad = FromInt(-6)
    /\ Cardinality({c \in Reach(nodes, 5) : 1 \in Reach(nodes, c) /\ c # 1
                        /\ \E i \in 1..Len(nodes[c].prev) : nodes[c].prev[i] = 1}) = 2

\* C6: when r.backward() returns, r.gradient is exactly 1, whatever r is and
\* whatever gradient it held before the call.
C6_RootGradientIsOne ==
    call.root # 0 => nodes[call.root].grad = One

\* backward() has returned on an operation result that held a gradient other
\* than 0 and 1 before the call.
C6_Witness ==
    /\ call.root # 0
    /\ nodes[call.root].op # None
    /\ call.pre[call.root] # Zero
    /\ call.pre[call.root] # One

\* No node under r is an operation on one node twice.
NoSelfOperation(ns, r) == \A n \in Reach(ns, r) : ~ns[n].backward.is_self

\* C7 as stated (here on graphs whose operations have distinct operands):
\* after a second backward() on the same root, the first made from all-zero
\* gradients, every non-root reachable node holds twice what it held after
\* the first call, at any depth.
C7_SecondCallDoubles ==
    (call.rep /\ NoSelfOperation(nodes, call.root)) =>
        \A n \in Reach(nodes, call.root) \ {call.root} :
            nodes[n].grad = FMul(Two, call.pre[n])

\* n is an operand of the root and of no other node under the root, and the
\* root's operation has two distinct operands or is tanh.
DirectOperand(ns, root, n) ==
    /\ n # root
    /\ ~ns[root].backward.is_self
    /\ \A c \in Reach(ns, root) :
           (\E i \in 1..Len(ns[c].prev) : ns[c].prev[i] = n) => c = root

\* C7 as amended: the second call doubles the gradient of the nodes that only
\* the root consumes.
C7_SecondCallDoublesDirect ==
    call.rep =>
        \A n \in Reach(nodes, call.root) :
            DirectOperand(nodes, call.root, n) =>
                nodes[n].grad = FMul(Two, call.pre[n])

\* The second of two backward() calls on one root has returned and doubled a
\* non-zero gradient of a direct operand.
C7_Witness ==
    /\ call.rep
    /\ \E n \in Reach(nodes, call.root) :
           /\ DirectOperand(nodes, call.root, n)
           /\ nodes[n].grad # Zero

\* The fields of a cell other than its gradient and its label.
Frozen(cell) ==
    [uuid |-> cell.uuid, data |-> cell.data, prev |-> cell.prev,
     op |-> cell.op, backward |-> cell.backward]

\* One step as C8 allows it: no call changes the value, operand list,
\* operation tag, identity or closure of an existing node; backward() changes
\* only gradients, and only of nodes reachable from its root; trace() changes
\* no field at all.
C8_Step ==
    /\ \A i \in Ids : Frozen(nodes'[i]) = Frozen(nodes[i])
    /\ call'.root # 0 =>
           /\ Len(nodes') = Len(nodes)
           /\ \A i \in Ids :
                  /\ nodes'[i].label = nodes[i].label
                  /\ i \notin Reach(nodes, call'.root) =>
                         nodes'[i].grad = nodes[i].grad
    /\ ret'.root # 0 => nodes' = nodes

\* C8, over every step of every behaviour: only gradients change, and only
\* under the root of a backward() call.
C8_OnlyGradientsChange == [][C8_Step]_vars

\* backward() has returned, has changed a gradient, and a node outside the
\* root's graph holds a gradient from an earlier call.
C8_Witness ==
    /\ call.root # 0
    /\ \E i \in Ids \ Reach(nodes, call.root) : nodes[i].grad # Zero
    /\ \E j \in Reach(nodes, call.root) : nodes[j].grad # call.pre[j]

\* The uuids of the node entries trace() returned.
TracedUuids == {ret.nodes[i].uuid : i \in 1..Len(ret.nodes)}

\* The operand-list entries of the nodes in R: <<consumer, position>>.
OperandEntries(R) ==
    {x \in R \X (1..2) : x[2] <= Len(nodes[x[1]].prev)}

\* The returned edges that lead from operand o to consumer n.
EdgesBetween(o, n) ==
    {j \in 1..Len(ret.edges) :
        /\ ret.edges[j][1].uuid = nodes[o].uuid
        /\ ret.edges[j][2].uuid = nodes[n].uuid}

\* C9: trace() returns one node entry per reachable node, with pairwise
\* distinct identities, and one edge per operand-list entry of a reachable
\* node, from the operand to its consumer, with listed endpoints; an operand
\* used as both arguments of an operation gives one edge.
C9_TraceEnumeration ==
    ret.root # 0 =>
        LET R == Reach(nodes, ret.root)
        IN  /\ Len(ret.nodes) = Cardinality(R)
            /\ Cardinality(TracedUuids) = Len(ret.nodes)
            /\ TracedUuids = {nodes[n].uuid : n \in R}
            /\ Len(ret.edges) = Cardinality(OperandEntries(R))
            /\ \A x \in OperandEntries(R) :
                   Cardinality(EdgesBetween(nodes[x[1]].prev[x[2]], x[1])) = 1
            /\ \A j \in 1..Len(ret.edges) :
                   /\ ret.edges[j][1].uuid \in TracedUuids
                   /\ ret.edges[j][2].uuid \in TracedUuids
            /\ \A n \in R :
                   nodes[n].backward.is_self =>
                       Cardinality({j \in 1..Len(ret.edges) :
                                       ret.edges[j][2].uuid = nodes[n].uuid}) = 1

\* trace() has returned on a graph with an operation on one node twice whose
\* operand is reachable by a second path.
C9_Witness ==
    /\ ret.root # 0
    /\ \E n \in Reach(nodes, ret.root) :
           /\ nodes[n].backward.is_self
           /\ Cardinality({c \in Reach(nodes, ret.root) :
                   \E i \in 1..Len(nodes[c].prev) :
                       nodes[c].prev[i] = nodes[n].backward.lhs}) > 1

\* The gradients after a closure with distinct operands ran on gradients pre,
\* as the rules of the four operations give them: g is the result's gradient
\* and v the result's value.
RuleResult(c, pre) ==
    LET g == pre[c.out]
        v == nodes[c.out].data
        toLhs == CASE c.f = "add" -> g
                   [] c.f = "sub" -> g
                   [] c.f = "mul" -> FMul(g, nodes[c.rhs].data)
                   [] c.f = "tanh" -> FMul(g, FSub(One, FMul(v, v)))
        toRhs == CASE c.f = "add" -> g
                   [] c.f = "sub" -> FNeg(g)
                   [] c.f = "mul" -> FMul(g, nodes[c.lhs].data)
                   [] c.f = "tanh" -> Zero
    IN  [i \in 1..Len(pre) |->
            IF i = c.lhs THEN FAdd(pre[i], toLhs)
            ELSE IF i = c.rhs THEN FAdd(pre[i], toRhs)
            ELSE pre[i]]

\* C10: a backward rule of an operation on distinct nodes adds g to both
\* operands (add), g and -g (subtract), g * right.value and g * left.value
\* (multiply), g * (1 - v^2) to the sole operand (tanh), and changes no
\* other gradient, the result's own included.
C10_RuleDistinctOperands ==
    \A e \in Invocations :
        LET c == ClosureOf(e)
        IN  ~c.is_self => e.post = RuleResult(c, e.pre)

\* One backward() call invoked a subtract rule and a second rule, each on
\* distinct operands, the subtract rule on operands that already held
\* gradients.
C10_Witness ==
    /\ \E e \in Invocations :
          /\ ClosureOf(e).f = "sub"
          /\ ~ClosureOf(e).is_self
          /\ e.pre[ClosureOf(e).lhs] # Zero
          /\ e.pre[ClosureOf(e).rhs] # Zero
    /\ \E e \in Invocations :
          /\ ClosureOf(e).f \in {"mul", "tanh"}
          /\ ~ClosureOf(e).is_self

\* The arguments an operation was called with, as its closure captured them.
Arguments(n) ==
    LET c == nodes[n].backward
    IN  IF c.f = "none" THEN {} ELSE {c.lhs, c.rhs}

\* The addresses the order of the call that has just returned holds.
Ordered == {call.topo[i] : i \in 1..Len(call.topo)}

\* C11: add, subtract and multiply store [a, b] in argument order when a and
\* b are distinct nodes, whatever their values, and [a] exactly when both
\* arguments are one node; the topological order and the trace hold every
\* argument of every node they hold, each under its own identity, so nodes
\* of equal value are not merged.
C11_OperandsByIdentity ==
    /\ \A n \in Ids :
           LET c == nodes[n].backward
           IN  c.f \in {"add", "sub", "mul"} =>
                   /\ c.lhs # c.rhs => nodes[n].prev = <<c.lhs, c.rhs>>
                   /\ c.lhs = c.rhs => nodes[n].prev = <<c.lhs>>
                   /\ c.is_self <=> c.lhs = c.rhs
    /\ \A m, n \in Ids : m # n => nodes[m].uuid # nodes[n].uuid
    /\ call.root # 0 =>
           /\ call.root \in Ordered
           /\ \A n \in Ordered : Arguments(n) \subseteq Ordered
    /\ ret.root # 0 =>
           /\ nodes[ret.root].uuid \in TracedUuids
           /\ \A n \in Ids :
                  nodes[n].uuid \in TracedUuids =>
                      \A a \in Arguments(n) :
                          /\ nodes[a].uuid \in TracedUuids
                          /\ EdgesBetween(a, n) # {}

\* backward() has returned on an operation whose two arguments are distinct
\* nodes of equal value, and its order holds both.
C11_Witness ==
    /\ call.root # 0
    /\ LET c == nodes[call.root].backward
       IN  /\ c.f \in {"add", "sub", "mul"}
           /\ c.lhs # c.rhs
           /\ nodes[c.lhs].data = nodes[c.rhs].data
           /\ nodes[call.root].prev = <<c.lhs, c.rhs>>
           /\ {c.lhs, c.rhs} \subseteq Ordered

\* The value an operation computes from its operands' values in heap ns.
Computed(ns, cell) ==
    LET c == cell.backward
    IN  CASE cell.op = "+" -> FAdd(ns[c.lhs].data, ns[c.rhs].data)
          [] cell.op = "-" -> FSub(ns[c.lhs].data, ns[c.rhs].data)
          [] cell.op = "*" -> FMul(ns[c.lhs].data, ns[c.rhs].data)
          [] cell.op = "tanh" -> FTanh(ns[c.lhs].data)

\* One step as C12 allows it: a step that allocates a cell allocates exactly
\* one, leaves every existing cell as it was, and the new cell has an
\* identity no existing cell has, gradient 0, and is either a leaf (no
\* operands, no closure) or an operation result (operands among the existing
\* cells, a closure, and the value the operation gives on the operands'
\* values before the step).
C12_Step ==
    Len(nodes') # Len(nodes) =>
        LET out == Len(nodes) + 1
            cell == nodes'[out]
        IN  /\ Len(nodes') = out
            /\ \A i \in Ids :
                   /\ nodes'[i].data = nodes[i].data
                   /\ nodes'[i].grad = nodes[i].grad
                   /\ nodes'[i].uuid # cell.uuid
            /\ cell.grad = Zero
            /\ IF cell.op = None
               THEN /\ cell.prev = <<>>
                    /\ cell.backward = NoClosure
               ELSE /\ cell.prev # <<>>
                    /\ \A i \in 1..Len(cell.prev) : cell.prev[i] \in Ids
                    /\ cell.backward.f # "none"
                    /\ cell.backward.out = out
                    /\ cell.data = Computed(nodes, cell)

\* C12, over every step of every behaviour: a constructor call returns a
\* brand-new node with a new identity, gradient 0 and its value computed
\* from its operands, a leaf without operands and rule, a non-leaf with
\* both, and changes no existing node's value or gradient.
C12_ConstructorFresh == [][C12_Step]_vars

\* An operation has just been constructed on an operand that holds a
\* gradient from an earlier backward(): the operand kept it, the result
\* starts at 0.
C12_Witness ==
    /\ nodes # <<>>
    /\ call.root = 0
    /\ nBackward > 0
    /\ LET cell == nodes[Len(nodes)]
       IN  /\ cell.op # None
           /\ cell.grad = Zero
           /\ nodes[cell.prev[1]].grad # Zero
           /\ cell.data = Computed(nodes, cell)

\* The positions at which the order of the call that has just returned
\* holds node n.
PositionsOf(n) == {i \in 1..Len(call.topo) : call.topo[i] = n}

\* The nodes under root that have n in their operand list.
Consumers(ns, root, n) ==
    {c \in Reach(ns, root) : \E i \in 1..Len(ns[c].prev) : ns[c].prev[i] = n}

\* C13: the order build_topo computed for the root of backward() holds
\* every node reachable from the root exactly once and no other node, ends
\* with the root, and holds every operand before each of its consumers.
C13_TopologicalOrder ==
    call.root # 0 =>
        /\ \A n \in Reach(nodes, call.root) : Cardinality(PositionsOf(n)) = 1
        /\ Ordered = Reach(nodes, call.root)
        /\ call.topo[Len(call.topo)] = call.root
        /\ \A i \in 1..Len(call.topo) :
               \A k \in 1..Len(nodes[call.topo[i]].prev) :
                   \E j \in 1..(i - 1) :
                       call.topo[j] = nodes[call.topo[i]].prev[k]

\* backward() has returned on a root under which a node is the operand of two
\* nodes, one of them not the root.
C13_Witness ==
    /\ call.root # 0
    /\ \E n \in Reach(nodes, call.root) :
           /\ Cardinality(Consumers(nodes, call.root, n)) > 1
           /\ Cardinality(PositionsOf(n)) = 1
           /\ PositionsOf(call.root) = {Len(call.topo)}

\* The positions in the log of the call that has just returned at which the
\* closure of node n was invoked.
InvokedAt(n) == {k \in 1..Len(call.log) : call.log[k].node = n}

\* C14: one backward() call invokes the closure of every reachable node that
\* has one exactly once, and no closure for a leaf or for a node outside the
\* root's graph; the closure of a node runs after the closures of all its
\* reachable consumers, and from then on the node's gradient stays as it is
\* until the call returns.
C14_RuleOrder ==
    call.root # 0 =>
        /\ \A n \in Ids :
               Cardinality(InvokedAt(n)) =
                   IF n \in Reach(nodes, call.root) /\ nodes[n].op # None
                   THEN 1 ELSE 0
        /\ \A n \in Reach(nodes, call.root) :
               \A k \in InvokedAt(n) :
                   /\ \A c \in Consumers(nodes, call.root, n) :
                          \E j \in InvokedAt(c) : j < k
                   /\ \A j \in k..Len(call.log) :
                          call.log[j].post[n] = call.log[j].pre[n]
                   /\ nodes[n].grad = call.log[k].post[n]

\* backward() has returned after invoking the closure of the root and then
\* the closure of an operand of the root, and a leaf under both was skipped.
C14_Witness ==
    /\ call.root # 0
    /\ Len(call.log) = 2
    /\ call.log[1].node = call.root
    /\ call.log[2].node \in Consumers(nodes, call.root, 1)
    /\ call.root \in Consumers(nodes, call.root, call.log[2].node)
    /\ call.root \in Consumers(nodes, call.root, 1)
    /\ nodes[1].op = None
    /\ InvokedAt(1) = {}

\* Every operand of every node was constructed before the node.
Acyclic ==
    \A n \in Ids :
        \A i \in 1..Len(nodes[n].prev) :
            /\ nodes[n].prev[i] \in Ids
            /\ nodes[n].prev[i] < n

\* What build_topo and trace's build return when started on node r.
TopoOf(r) == BuildTopo(nodes, r, [topo |-> <<>>, visited |-> {}]).topo
TraceOf(r) ==
    TraceBuild(nodes, r, [nodes |-> <<>>, edges |-> <<>>, visited |-> {}])

\* C15: whatever calls were made, every operand of a node was constructed
\* before the node, so the operand relation has no cycle; on any node the
\* traversals of backward() and trace() come to an end, build_topo after
\* pushing at most one entry per node, build after listing at most one
\* entry per node and one edge per operand-list entry, and a backward()
\* call returns after invoking at most one closure per entry.
C15_AcyclicTerminates ==
    /\ Acyclic
    /\ \A r \in Ids :
           /\ Len(TopoOf(r)) <= Len(nodes)
           /\ Len(TraceOf(r).nodes) <= Len(nodes)
           /\ Len(TraceOf(r).edges) <= 2 * Len(TraceOf(r).nodes)
    /\ call.root # 0 =>
           /\ call.topo = TopoOf(call.root)
           /\ Len(call.log) <= Len(call.topo)

\* backward() has returned on a root two operations deep, after a with_label
\* call, having walked the whole heap.
C15_Witness ==
    /\ call.root # 0
    /\ nLabel > 0
    /\ Len(call.topo) = Len(nodes)
    /\ \E n \in Reach(nodes, call.root) \ {call.root} : nodes[n].prev # <<>>

\* The call's borrows all succeed and are all released when it returns.
ReturnsNormally(events) ==
    LET st == RunBorrows(events, 1, Unborrowed(nodes))
    IN  /\ ~st.panicked
        /\ \A cell \in DOMAIN st.flag : st.flag[cell] = 0

\* The events of a sequence.
EventsOf(events) == {events[i] : i \in 1..Len(events)}

\* C16: no operator fails on a borrow when it constructs its result;
\* backward() returns without a borrow conflict, on self-aliased and
\* reconverging graphs as well: while it holds the shared borrow of the node
\* it processes, that node's closure only reads the node and borrows each
\* operand mutably only while no other borrow of it is alive; trace() takes
\* shared borrows only and returns without a conflict.
C16_NoBorrowConflict ==
    /\ \A n \in Ids :
           nodes[n].op # None => ReturnsNormally(OperatorBorrows(nodes, n))
    /\ call.root # 0 =>
           /\ ReturnsNormally(BackwardBorrows(nodes, call.root))
           /\ \A e \in Invocations :
                  Ev("borrow_mut", e.node) \notin
                      EventsOf(ClosureBorrows(ClosureOf(e)))
    /\ ret.root # 0 =>
           /\ ReturnsNormally(TraceBorrows(nodes, ret.root))
           /\ \A e \in EventsOf(TraceBorrows(nodes, ret.root)) :
                  e.op \in {"borrow", "drop"}

\* backward() has returned after running the closure of an operation on one
\* node twice whose operand is also consumed by the root.
C16_Witness ==
    /\ call.root # 0
    /\ \E e \in Invocations :
           /\ ClosureOf(e).is_self
           /\ e.node # call.root
           /\ Cardinality(Consumers(nodes, call.root, ClosureOf(e).lhs)) = 2

====
